---------------------------- MODULE Spec2Model ----------------------------
(***************************************************************************)
(* RequestResultRpcClient and RpcHolder of                                 *)
(* pagespeed/controller/request_result_rpc_client.h as a state machine.    *)
(*                                                                         *)
(* One session: one client object, the RpcHolder it creates, the gRPC      *)
(* reader-writer (the channel) the holder owns, the completion queue whose *)
(* events run the handlers on worker threads, and the caller's thread.     *)
(* Every method is cut at the points where another thread can observe it:  *)
(* the acquisition of mutex_, the body executed under the mutex, and the   *)
(* call of the user's callback made after lock.Release().                  *)
(***************************************************************************)
EXTENDS Integers, Sequences, FiniteSets

\* ------------------------------------------------------------------ bounds
\* Worker threads draining the completion queue.
NumWorkers == 2
\* Calls of SendResultToServer made by the caller's own thread.
MaxSendCalls == 2

\* ----------------------------------------------------------------- threads
Main == 0
Workers == 1..NumWorkers
Threads == {Main} \cup Workers
NoThread == -1

\* ------------------------------------------------------------------ values
NULL == "nullptr"
\* What callback_ points to (the CallbackT the constructor was given).
CALLBACK == "callback"
\* What rpc_ points to (the RpcHolder the constructor allocates).
HOLDER == "RpcHolder"

\* grpc::StatusCode values Finish can report: the two the holder does not
\* log, the one debug builds log as fatal, and one ordinary error.
StatusCodes == {"OK", "CANCELLED", "ABORTED", "UNAVAILABLE"}

\* When the caller's thread calls SendResultToServer: at any time after
\* Start ("at context destruction"), only once Run or Cancel was called,
\* or only once Run was called ("If Run is called, do your work and then").
Policies == {"anytime", "afterDecision", "afterRun"}

VARIABLES
  mutex,          \* mutex_: the thread holding it, or NoThread
  callback_,      \* callback_: CALLBACK or NULL
  rpc_,           \* rpc_: HOLDER or NULL
  resp_,          \* resp_.ok_to_proceed()
  rw_,            \* RpcHolder::rw_ is set
  status_,        \* RpcHolder::status_.error_code()
  holderDeleted,  \* the RpcHolder has been deleted
  pending,        \* operations issued on the channel whose tag is not delivered
  pc,             \* per thread: <<method, position>>
  cb,             \* per thread: the local cb of NotifyClientOfServerDecision / StartUpFailed
  trace,          \* what happened so far, in order
  crashed,        \* the process died (failed DCHECK, null dereference)
  debug,          \* the build has DCHECKs on (NDEBUG not defined)
  policy,         \* the caller's use of SendResultToServer
  sendCalls       \* calls of SendResultToServer made by the caller's thread

vars == <<mutex, callback_, rpc_, resp_, rw_, status_, holderDeleted, pending,
          pc, cb, trace, crashed, debug, policy, sendCalls>>

\* ------------------------------------------------------------------ events
\* locked: the thread the event belongs to holds mutex_ at that moment.
Ev(kind, name, flag, locked) ==
  [kind |-> kind, name |-> name, flag |-> flag, locked |-> locked]
\* User code entered by thread t.
Call(name, t) == Ev("call", name, TRUE, mutex = t)
\* An operation issued on the channel; flag: another one was outstanding.
Issue(op, t) == Ev("issue", op, pending # {}, mutex = t)
\* A completion delivered by the queue; flag: ok.
Done(op, ok) == Ev("done", op, ok, FALSE)
\* The decision a successful Read stored in resp_; flag: ok_to_proceed.
Response(ok_to_proceed) == Ev("response", "ok_to_proceed", ok_to_proceed, FALSE)
\* SendResultToServer ran its body; flag: it found rpc_ and detached it.
Sent(acted, t) == Ev("send", "SendResultToServer", acted, mutex = t)
\* rpc_ went from the holder to null in method by.
Detach(by, t) == Ev("detach", by, TRUE, mutex = t)
\* A message given to the MessageHandler.
Log(severity, t) == Ev("log", severity, TRUE, mutex = t)
\* The RpcHolder deleted; how: "delete this" or "rpc_.reset()".
Delete(how, t) == Ev("delete", how, TRUE, mutex = t)

\* MakeFunction(object, run, cancel) attached to an operation as its tag.
Op(op, run, cancel) == [op |-> op, run |-> run, cancel |-> cancel]

\* The tags the code attaches to the operations it issues.
OpenTag == Op("Open", "BootStrapFinished", "StartUpFailed")

\* Mutant: the success handler given for both outcomes of the request Write.
WriteRequestTagOneHandler ==
  Op("WriteRequest", "WriteServerRequestComplete", "WriteServerRequestComplete")

WriteRequestTag == Op("WriteRequest", "WriteServerRequestComplete", "StartUpFailed")

\* Mutant: the decision handler given for both outcomes of the Read.
ReadTagOneHandler ==
  Op("Read", "NotifyClientOfServerDecision", "NotifyClientOfServerDecision")

ReadTag == Op("Read", "NotifyClientOfServerDecision", "StartUpFailed")

\* Mutant: a failed Write of the result goes straight to FinishFailed.
WriteResultTagNoFinish == Op("WriteResult", "Finish", "FinishFailed")

\* Mutant: a failed Write of the result is reported to the client's
\* StartUpFailed instead of the holder's Error.
WriteResultTagClientBound == Op("WriteResult", "Finish", "StartUpFailed")

\* rpc->CallbackForAsyncCleanup() on the Write of the result.
WriteResultTag == Op("WriteResult", "Finish", "Error")

FinishTag == Op("Finish", "FinishSucceeded", "FinishFailed")

Idle == <<"idle", "">>

\* Methods that begin with ScopedMutex lock(mutex_.get()).
LockingMethods == {"Start", "SendResultToServer", "BootStrapFinished",
                   "WriteServerRequestComplete",
                   "NotifyClientOfServerDecision", "StartUpFailed"}

\* ------------------------------------------------------------------- Init
Init ==
  /\ mutex = NoThread
  /\ callback_ = CALLBACK
  /\ rpc_ = HOLDER
  /\ resp_ = FALSE
  /\ rw_ = FALSE
  /\ status_ = "OK"
  /\ holderDeleted = FALSE
  /\ pending = {}
  /\ pc = [t \in Threads |-> IF t = Main THEN <<"Start", "entry">> ELSE Idle]
  /\ cb = [t \in Threads |-> NULL]
  /\ trace = <<>>
  /\ crashed = FALSE
  /\ debug \in BOOLEAN
  /\ policy \in Policies
  /\ sendCalls = 0

\* The process dies in thread t after the events tr.
Crash(t, tr, why) ==
  /\ crashed' = TRUE
  /\ trace' = Append(tr, Ev("crash", why, TRUE, mutex = t))
  /\ UNCHANGED <<mutex, callback_, rpc_, resp_, rw_, status_, holderDeleted,
                 pending, pc, cb, debug, policy, sendCalls>>

\* ScopedMutex lock(mutex_.get()): thread t blocks until the mutex is free.
Acquire(t) ==
  /\ ~crashed
  /\ pc[t][1] \in LockingMethods
  /\ pc[t][2] = "entry"
  /\ mutex = NoThread
  /\ mutex' = t
  /\ pc' = [pc EXCEPT ![t] = <<pc[t][1], "locked">>]
  /\ UNCHANGED <<callback_, rpc_, resp_, rw_, status_, holderDeleted, pending,
                 cb, trace, crashed, debug, policy, sendCalls>>


\* Mutant: the ScopedMutex of Start ends before rpc_->SetReaderWriter(...).
LockScopeEndsAfterStartRpc(t) == NoThread

\* mutex_ after StartRpc returned inside Start: the ScopedMutex declared at
\* the top of Start is still in scope, t keeps the mutex.
LockScopeOfStart(t) == t

\* ------------------------------------------------- RequestResultRpcClient
\* Start, under the mutex: StartRpc(stub, context, queue, tag) is the
\* subclass hook that begins the call; its tag runs BootStrapFinished or
\* StartUpFailed.  The queue may deliver the tag before Start goes on.
Start_StartRpc(t) ==
  /\ ~crashed
  /\ pc[t] = <<"Start", "locked">>
  /\ trace' = trace \o <<Call("StartRpc", t), Issue("Open", t)>>
  /\ pending' = pending \cup {OpenTag}
  /\ mutex' = LockScopeOfStart(t)
  /\ pc' = [pc EXCEPT ![t] = <<"Start", "SetReaderWriter">>]
  /\ UNCHANGED <<callback_, rpc_, resp_, rw_, status_, holderDeleted,
                 cb, crashed, debug, policy, sendCalls>>

\* Start, still under the mutex: rpc_->SetReaderWriter(...), then the
\* ScopedMutex goes out of scope.
Start_SetReaderWriter(t) ==
  /\ ~crashed
  /\ pc[t] = <<"Start", "SetReaderWriter">>
  /\ rw_' = TRUE
  /\ mutex' = IF mutex = t THEN NoThread ELSE mutex
  /\ pc' = [pc EXCEPT ![t] = Idle]
  /\ UNCHANGED <<callback_, rpc_, resp_, status_, holderDeleted, pending, cb,
                 trace, crashed, debug, policy, sendCalls>>

\* Mutant: the holder is used through rpc_.get(), rpc_ keeps it.
NotReleased == rpc_

\* rpc_ after "rpc = rpc_.release()".
Released == NULL

\* Mutant: the deny branch leaves rpc_ alone.
ResetOmitted == rpc_

\* rpc_ after "rpc_.reset()".
Reset == NULL

\* The caller's thread calls SendResultToServer if its policy allows it now.
SendAllowed ==
  \/ policy = "anytime"
  \/ policy = "afterDecision" /\
       \E i \in 1..Len(trace) : trace[i].kind = "call" /\
                                trace[i].name \in {"CallRun", "CallCancel"}
  \/ policy = "afterRun" /\
       \E i \in 1..Len(trace) : trace[i].kind = "call" /\ trace[i].name = "CallRun"

CallSendResultToServer(t) ==
  /\ ~crashed
  /\ t = Main
  /\ pc[t] = Idle
  /\ sendCalls < MaxSendCalls
  /\ SendAllowed
  /\ sendCalls' = sendCalls + 1
  /\ pc' = [pc EXCEPT ![t] = <<"SendResultToServer", "entry">>]
  /\ UNCHANGED <<mutex, callback_, rpc_, resp_, rw_, status_, holderDeleted,
                 pending, cb, trace, crashed, debug, policy>>

\* SendResultToServer, under the mutex.
SendResultToServer(t) ==
  /\ ~crashed
  /\ pc[t] = <<"SendResultToServer", "locked">>
  /\ IF rpc_ = NULL
       THEN /\ mutex' = NoThread
            /\ pc' = [pc EXCEPT ![t] = Idle]
            /\ trace' = Append(trace, Sent(FALSE, t))
            /\ UNCHANGED <<callback_, rpc_, resp_, rw_, status_, holderDeleted,
                           pending, cb, crashed, debug, policy, sendCalls>>
       ELSE IF ~rw_
         THEN Crash(t, Append(trace, Sent(TRUE, t)), "rw() is null")
         ELSE /\ rpc_' = Released
              /\ pending' = pending \cup {WriteResultTag}
              /\ trace' = trace \o <<Sent(TRUE, t), Detach("SendResultToServer", t),
                                   Issue("WriteResult", t)>>
              /\ mutex' = NoThread
              /\ pc' = [pc EXCEPT ![t] = Idle]
              /\ UNCHANGED <<callback_, resp_, rw_, status_, holderDeleted, cb,
                             crashed, debug, policy, sendCalls>>

\* BootStrapFinished, under the mutex: the hook PopulateServerRequest, then
\* the Write of the request.
BootStrapFinished(t) ==
  /\ ~crashed
  /\ pc[t] = <<"BootStrapFinished", "locked">>
  /\ LET called == Append(trace, Call("PopulateServerRequest", t)) IN
     IF rpc_ = NULL \/ ~rw_
       THEN Crash(t, called, "rpc_->rw() is null")
       ELSE /\ pending' = pending \cup {WriteRequestTag}
            /\ trace' = Append(called, Issue("WriteRequest", t))
            /\ mutex' = NoThread
            /\ pc' = [pc EXCEPT ![t] = Idle]
            /\ UNCHANGED <<callback_, rpc_, resp_, rw_, status_, holderDeleted,
                           cb, crashed, debug, policy, sendCalls>>

\* WriteServerRequestComplete, under the mutex: the Read of the decision.
WriteServerRequestComplete(t) ==
  /\ ~crashed
  /\ pc[t] = <<"WriteServerRequestComplete", "locked">>
  /\ IF rpc_ = NULL \/ ~rw_
       THEN Crash(t, trace, "rpc_->rw() is null")
       ELSE /\ pending' = pending \cup {ReadTag}
            /\ trace' = Append(trace, Issue("Read", t))
            /\ mutex' = NoThread
            /\ pc' = [pc EXCEPT ![t] = Idle]
            /\ UNCHANGED <<callback_, rpc_, resp_, rw_, status_, holderDeleted,
                           cb, crashed, debug, policy, sendCalls>>


\* Mutant: the decision read the wrong way round.
OkToProceedInverted == ~resp_

\* bool ok_to_proceed = resp_.ok_to_proceed().
OkToProceed == resp_

\* Mutant: no lock.Release(), the ScopedMutex keeps mutex_ to the end of the
\* method.
ReleaseOmitted(t) == t

\* lock.Release() before the callback is called: who holds mutex_ afterwards.
Release(t) == NoThread

\* Mutant: no "return" after cb->CallRun(), the thread falls into the
\* branch that calls cb->CallCancel().
CallbackFallsThrough(t) ==
  IF pc[t][2] = "CallRun" THEN <<pc[t][1], "CallCancel">> ELSE Idle

\* The "return" that follows cb->CallRun() or cb->CallCancel(): where
\* thread t goes on.
CallbackReturns(t) == Idle

\* Mutant: StartUpFailed returns without telling the client.
StartUpFailedForgetsCancel(t) == Idle

\* cb->CallCancel() at the end of StartUpFailed: where thread t goes on
\* after lock.Release().
StartUpFailedCallsCancel(t) == <<"StartUpFailed", "CallCancel">>

\* NotifyClientOfServerDecision, under the mutex, up to lock.Release().
\* A failed DCHECK ends a debug build; other builds compile it away.
NotifyClientOfServerDecision(t) ==
  /\ ~crashed
  /\ pc[t] = <<"NotifyClientOfServerDecision", "locked">>
  /\ IF debug /\ rpc_ = NULL
       THEN Crash(t, trace, "DCHECK(rpc_ != nullptr)")
       ELSE /\ resp_' = FALSE
            /\ cb' = [cb EXCEPT ![t] = callback_]
            /\ callback_' = NULL
            /\ mutex' = Release(t)
            /\ IF OkToProceed
                 THEN /\ pc' = [pc EXCEPT ![t] = <<"NotifyClientOfServerDecision", "CallRun">>]
                      /\ UNCHANGED <<rpc_, holderDeleted, trace>>
                 ELSE \* rpc_.reset() deletes the holder rpc_ owns, if any.
                      /\ rpc_' = Reset
                      /\ holderDeleted' = (holderDeleted \/ rpc_ # Reset)
                      /\ trace' = IF rpc_ # Reset
                                  THEN trace \o <<Detach("NotifyClientOfServerDecision", t),
                                                  Delete("rpc_.reset()", t)>>
                                  ELSE trace
                      /\ pc' = [pc EXCEPT ![t] = <<"NotifyClientOfServerDecision", "CallCancel">>]
            /\ UNCHANGED <<rw_, status_, pending, crashed, debug, policy, sendCalls>>

\* Mutant: StartUpFailed throws the holder away with rpc_.reset() and does
\* not call Finish on it.
StartUpFailedDiscards(t) ==
  /\ ~crashed
  /\ pc[t] = <<"StartUpFailed", "locked">>
  /\ IF debug /\ rpc_ = NULL
       THEN Crash(t, trace, "DCHECK(rpc_ != nullptr)")
       ELSE IF rpc_ = NULL
         THEN /\ mutex' = NoThread
              /\ pc' = [pc EXCEPT ![t] = Idle]
              /\ UNCHANGED <<callback_, rpc_, resp_, rw_, status_, holderDeleted,
                             pending, cb, trace, crashed, debug, policy, sendCalls>>
         ELSE /\ rpc_' = NULL
              /\ holderDeleted' = TRUE
              /\ trace' = trace \o <<Log("kWarning", t), Detach("StartUpFailed", t),
                                   Delete("rpc_.reset()", t)>>
              /\ cb' = [cb EXCEPT ![t] = callback_]
              /\ callback_' = NULL
              /\ mutex' = Release(t)
              /\ pc' = [pc EXCEPT ![t] = StartUpFailedCallsCancel(t)]
              /\ UNCHANGED <<resp_, rw_, status_, pending, crashed, debug,
                             policy, sendCalls>>

\* StartUpFailed, under the mutex, up to lock.Release() (or to the end of the
\* scope when rpc_ is already null).  rpc->Finish() is RpcHolder::Finish.
StartUpFailed(t) ==
  /\ ~crashed
  /\ pc[t] = <<"StartUpFailed", "locked">>
  /\ IF debug /\ rpc_ = NULL
       THEN Crash(t, trace, "DCHECK(rpc_ != nullptr)")
       ELSE IF rpc_ = NULL
         THEN /\ mutex' = NoThread
              /\ pc' = [pc EXCEPT ![t] = Idle]
              /\ UNCHANGED <<callback_, rpc_, resp_, rw_, status_, holderDeleted,
                             pending, cb, trace, crashed, debug, policy, sendCalls>>
         ELSE IF ~rw_
           THEN Crash(t, Append(trace, Log("kWarning", t)), "rw() is null")
           ELSE /\ rpc_' = Released
                /\ pending' = pending \cup {FinishTag}
                /\ trace' = trace \o <<Log("kWarning", t), Detach("StartUpFailed", t),
                                     Issue("Finish", t)>>
                /\ cb' = [cb EXCEPT ![t] = callback_]
                /\ callback_' = NULL
                /\ mutex' = Release(t)
                /\ pc' = [pc EXCEPT ![t] = StartUpFailedCallsCancel(t)]
                /\ UNCHANGED <<resp_, rw_, status_, holderDeleted, crashed,
                               debug, policy, sendCalls>>

\* cb->CallRun() / cb->CallCancel(), after lock.Release().  The user's
\* callback may call SendResultToServer before it returns ("User will call
\* back into us via SendResultToServer() at some point"); the handler
\* returns right after the callback does.
InvokeCallback(t) ==
  /\ ~crashed
  /\ pc[t][2] \in {"CallRun", "CallCancel"}
  /\ IF cb[t] = NULL
       THEN Crash(t, trace, "cb is null")
       ELSE /\ trace' = Append(trace, Call(pc[t][2], t))
            /\ \/ pc' = [pc EXCEPT ![t] = CallbackReturns(t)]
               \/ /\ pc[t][2] = "CallRun" \/ policy # "afterRun"
                  /\ pc' = [pc EXCEPT ![t] = <<"SendResultToServer", "entry">>]
            /\ UNCHANGED <<mutex, callback_, rpc_, resp_, rw_, status_,
                           holderDeleted, pending, cb, crashed, debug, policy,
                           sendCalls>>

\* ---------------------------------------------------------------- RpcHolder
\* rw()->Finish(&status_, MakeFunction(this, FinishSucceeded, FinishFailed)),
\* after the events tr of the calling method.
HolderFinish(t, tr) ==
  IF holderDeleted \/ ~rw_
    THEN Crash(t, tr, "RpcHolder used after delete")
    ELSE /\ pending' = pending \cup {FinishTag}
         /\ trace' = Append(tr, Issue("Finish", t))
         /\ pc' = [pc EXCEPT ![t] = Idle]
         /\ UNCHANGED <<mutex, callback_, rpc_, resp_, rw_, status_,
                        holderDeleted, cb, crashed, debug, policy, sendCalls>>

\* RpcHolder::Finish as the run half of CallbackForAsyncCleanup.
Finish(t) ==
  /\ ~crashed
  /\ pc[t] = <<"Finish", "entry">>
  /\ HolderFinish(t, trace)

\* RpcHolder::Error, the cancel half of CallbackForAsyncCleanup.
Error(t) ==
  /\ ~crashed
  /\ pc[t] = <<"Error", "entry">>
  /\ HolderFinish(t, Append(trace, Log("kWarning", t)))

\* Mutant: only OK is left out of the log.
SeverityLogsCancelled(code) ==
  IF code = "OK" THEN ""
  ELSE IF debug /\ code = "ABORTED" THEN "kFatal"
  ELSE "kWarning"

\* The severity FinishSucceeded logs status_ with; "" when it logs nothing.
\* The message is handed to the MessageHandler, whose treatment of kFatal is
\* not part of this file: FinishSucceeded goes on to "delete this".
Severity(code) ==
  IF code \in {"OK", "CANCELLED"} THEN ""
  ELSE IF debug /\ code = "ABORTED" THEN "kFatal"
  ELSE "kWarning"

\* "delete this" at the end of FinishSucceeded / FinishFailed, after the
\* events tr.
DeleteThis(t, tr) ==
  IF holderDeleted
    THEN Crash(t, tr, "RpcHolder deleted twice")
    ELSE /\ holderDeleted' = TRUE
         /\ trace' = Append(tr, Delete("delete this", t))
         /\ pc' = [pc EXCEPT ![t] = Idle]
         /\ UNCHANGED <<mutex, callback_, rpc_, resp_, rw_, status_, pending,
                        cb, crashed, debug, policy, sendCalls>>

FinishSucceeded(t) ==
  /\ ~crashed
  /\ pc[t] = <<"FinishSucceeded", "entry">>
  /\ DeleteThis(t, IF Severity(status_) = "" THEN trace
                   ELSE Append(trace, Log(Severity(status_), t)))

\* Mutant: FinishFailed logs its warning and leaves the holder allocated.
FinishFailedLeaks(t) ==
  /\ ~crashed
  /\ pc[t] = <<"FinishFailed", "entry">>
  /\ trace' = Append(trace, Log("kWarning", t))
  /\ pc' = [pc EXCEPT ![t] = Idle]
  /\ UNCHANGED <<mutex, callback_, rpc_, resp_, rw_, status_, holderDeleted,
                 pending, cb, crashed, debug, policy, sendCalls>>

FinishFailed(t) ==
  /\ ~crashed
  /\ pc[t] = <<"FinishFailed", "entry">>
  /\ DeleteThis(t, Append(trace, Log("kWarning", t)))

\* --------------------------------------------------------- completion queue
\* An idle worker takes the tag of an outstanding operation off the queue
\* and runs its Function: Run on success, Cancel on failure.  The workers
\* are interchangeable, so the idle one with the least number takes it.  A successful
\* Read has filled resp_, a successful Finish has filled status_.
Deliver(t, p, ok) ==
  /\ ~crashed
  /\ t \in Workers
  /\ pc[t] = Idle
  /\ \A u \in Workers : u < t => pc[u] # Idle
  /\ p \in pending
  /\ pending' = pending \ {p}
  /\ pc' = [pc EXCEPT ![t] = <<IF ok THEN p.run ELSE p.cancel, "entry">>]
  /\ IF ok /\ p.op = "Read"
       THEN \E ok_to_proceed \in BOOLEAN :
              /\ resp_' = ok_to_proceed
              /\ trace' = trace \o <<Done(p.op, ok), Response(ok_to_proceed)>>
       ELSE /\ resp_' = resp_
            /\ trace' = Append(trace, Done(p.op, ok))
  /\ IF ok /\ p.op = "Finish" THEN status_' \in StatusCodes ELSE status_' = status_
  /\ UNCHANGED <<mutex, callback_, rpc_, rw_, holderDeleted, cb, crashed,
                 debug, policy, sendCalls>>

\* ------------------------------------------------------------ specification
ThreadStep(t) ==
  \/ Acquire(t)
  \/ Start_StartRpc(t)
  \/ Start_SetReaderWriter(t)
  \/ SendResultToServer(t)
  \/ BootStrapFinished(t)
  \/ WriteServerRequestComplete(t)
  \/ NotifyClientOfServerDecision(t)
  \/ StartUpFailed(t)
  \/ InvokeCallback(t)
  \/ Finish(t)
  \/ Error(t)
  \/ FinishSucceeded(t)
  \/ FinishFailed(t)

QueueStep == \E t \in Workers : \E p \in pending : \E ok \in BOOLEAN : Deliver(t, p, ok)

Next ==
  \/ \E t \in Threads : ThreadStep(t)
  \/ QueueStep
  \/ CallSendResultToServer(Main)

Spec == Init /\ [][Next]_vars

\* The sessions of a caller that calls SendResultToServer only after
\* CallRun, in which every thread that can take a step eventually takes one
\* and every issued operation eventually completes; the caller is never
\* obliged to call SendResultToServer.
InitAfterRun == Init /\ policy = "afterRun"

FairSpec ==
  /\ InitAfterRun
  /\ [][Next]_vars
  /\ WF_vars(\E t \in Threads : ThreadStep(t))
  /\ WF_vars(QueueStep)


\* ------------------------------------------------------- reading the trace
Events == 1..Len(trace)
Has(e) == \E i \in Events : trace[i] = e
Count(kind, name) ==
  Cardinality({i \in Events : trace[i].kind = kind /\ trace[i].name = name})
IsCall(i, name) == trace[i].kind = "call" /\ trace[i].name = name
IsIssue(i, op) == trace[i].kind = "issue" /\ trace[i].name = op

RunCalled == \E i \in Events : IsCall(i, "CallRun")
CancelCalled == \E i \in Events : IsCall(i, "CallCancel")
CallbackCalls == Count("call", "CallRun") + Count("call", "CallCancel")

\* Threads that hold the callback in their local cb and are about to call it.
Poised == {t \in Threads : pc[t][2] \in {"CallRun", "CallCancel"} /\ cb[t] # NULL}

\* The three startup operations, and the events that decide the outcome.
StartupOps == {"Open", "WriteRequest", "Read"}
Failed(op) == Has(Done(op, FALSE))
SomeStartupOpFailed == \E op \in StartupOps : Failed(op)
Denied == Has(Response(FALSE))
Granted == Has(Response(TRUE))

\* No startup handler is running or still to come.
HandlerMethods == {"BootStrapFinished", "WriteServerRequestComplete",
                   "NotifyClientOfServerDecision", "StartUpFailed"}
HandlersQuiet ==
  /\ \A t \in Threads : pc[t][1] \notin HandlerMethods
  /\ \A p \in pending : p.op \notin StartupOps

\* -------------------------------------------------------------------- C1
\* C1: the decision callback is invoked at most once per session, whatever
\* the completions are and whenever the caller calls SendResultToServer:
\* invocations made plus invocations about to be made never exceed one, and
\* there is none while callback_ is still set.
C1_CallbackAtMostOnce ==
  /\ CallbackCalls + Cardinality(Poised) <= 1
  /\ callback_ # NULL => CallbackCalls + Cardinality(Poised) = 0

\* The callback was invoked, and afterwards a completion was delivered and
\* SendResultToServer ran, with a caller that calls it at any time.
C1_Witness ==
  /\ policy = "anytime"
  /\ CallbackCalls = 1
  /\ \E i, j, k \in Events :
       /\ trace[i].kind = "call" /\ trace[i].name \in {"CallRun", "CallCancel"}
       /\ i < j /\ trace[j].kind = "done"
       /\ i < k /\ trace[k].kind = "send"

\* -------------------------------------------------------------------- C2
\* C2: when every operation completes, every thread runs and the caller
\* calls SendResultToServer only after CallRun, the callback is eventually
\* invoked: CallCancel after a failed open, a failed request Write or a
\* failed decision Read and after a denial, CallRun after a grant.
C2_CallbackEventually ==
  /\ <>(CallbackCalls = 1)
  /\ (SomeStartupOpFailed \/ Denied) ~> CancelCalled
  /\ Granted ~> RunCalled

\* The request Write failed and CallCancel was invoked.
C2_Witness == policy = "afterRun" /\ Failed("WriteRequest") /\ CancelCalled

\* -------------------------------------------------------------------- C3
\* C3: CallRun is invoked only after the open, the request Write and the
\* decision Read all succeeded and the response said ok_to_proceed; after a
\* failure of one of them or a response that denies, CallRun is never
\* invoked and, once the startup handlers are through, CallCancel has been
\* (the caller calling SendResultToServer only after the decision).
C3_RunOnlyWhenGranted ==
  /\ RunCalled => /\ \A op \in StartupOps : Has(Done(op, TRUE))
                  /\ Granted
  /\ SomeStartupOpFailed \/ Denied => ~RunCalled
  /\ (policy # "anytime" /\ (SomeStartupOpFailed \/ Denied) /\ HandlersQuiet)
       => CancelCalled

\* All three operations succeeded, the response denied, CallCancel was called.
C3_Witness ==
  /\ \A op \in StartupOps : Has(Done(op, TRUE))
  /\ Denied
  /\ CancelCalled
  /\ ~RunCalled


\* -------------------------------------------------------------------- C4
\* The session took the CallCancel path: a handler cleared callback_ to call
\* CallCancel, or has called it.
Cancelled == CancelCalled \/ \E t \in Threads : pc[t][2] = "CallCancel"

\* C4: once the session is denied or failed, a call of SendResultToServer
\* changes nothing in the client, the holder or the channel and issues no
\* operation, however often it is made; no result was ever written (the
\* caller calling SendResultToServer only after the decision).
C4_SendAfterCancelIsNoOp ==
  /\ [](Cancelled /\ policy # "anytime" => Count("issue", "WriteResult") = 0)
  /\ [][\A t \in Threads :
          (Cancelled /\ pc[t] = <<"SendResultToServer", "locked">> /\ pc'[t] # pc[t])
            => /\ UNCHANGED <<callback_, rpc_, resp_, rw_, status_,
                              holderDeleted, pending>>
               /\ trace' = Append(trace, Sent(FALSE, t))]_vars

\* Two calls of SendResultToServer ran after CallCancel.
C4_Witness ==
  /\ policy = "afterDecision"
  /\ CancelCalled
  /\ Count("send", "SendResultToServer") >= 2

\* -------------------------------------------------------------------- C5
IsSend(i) == trace[i].kind = "send"
FirstSend(j) == IsSend(j) /\ \A i \in Events : i < j => ~IsSend(i)
WriteResultDone == \E i \in Events : trace[i].kind = "done" /\ trace[i].name = "WriteResult"

\* C5: after CallRun the first call of SendResultToServer, and no other,
\* issues the Write of the result; the completion of that Write, success or
\* failure, is followed by one Finish, issued by the holder and not before
\* the completion; there is never a second Write or a second Finish (the
\* caller calling SendResultToServer only after the decision).
C5_OneWriteThenOneFinish ==
  policy # "anytime" =>
    /\ Count("issue", "WriteResult") <= 1
    /\ \A j \in Events :
         IsSend(j) => /\ trace[j].flag = (RunCalled /\ FirstSend(j))
                      /\ trace[j].flag => \E i \in Events : i < j /\ IsCall(i, "CallRun")
                      /\ trace[j].flag => /\ j + 2 <= Len(trace)
                                          /\ IsIssue(j + 2, "WriteResult")
    /\ RunCalled =>
         /\ Count("issue", "Finish") <= 1
         /\ \A j \in Events :
              IsIssue(j, "Finish") =>
                \E i \in Events : i < j /\ trace[i].kind = "done"
                                        /\ trace[i].name = "WriteResult"
         /\ (WriteResultDone /\ \A t \in Threads : pc[t][1] \notin {"Finish", "Error"})
              => Count("issue", "Finish") = 1

\* After CallRun SendResultToServer ran twice, the Write of the result
\* failed and the Finish was issued.
C5_Witness ==
  /\ policy # "anytime"
  /\ RunCalled
  /\ Count("send", "SendResultToServer") >= 2
  /\ Has(Done("WriteResult", FALSE))
  /\ Count("issue", "Finish") = 1

\* -------------------------------------------------------------------- C6
\* C6: after a failed open, request Write or decision Read no Read and no
\* Write is issued any more, the only operation issued is the Finish of the
\* cleanup, issued once, and CallCancel is called (the caller calling
\* SendResultToServer only after the decision).
C6_NoReadAfterFailure ==
  policy # "anytime" =>
    /\ \A i, j \in Events :
         (/\ trace[i].kind = "done" /\ trace[i].name \in StartupOps /\ ~trace[i].flag
          /\ i < j /\ trace[j].kind = "issue")
           => trace[j].name = "Finish"
    /\ (SomeStartupOpFailed /\ HandlersQuiet)
         => CancelCalled /\ ~RunCalled /\ Count("issue", "Finish") = 1

\* The decision Read failed, CallCancel was called and the Finish completed.
C6_Witness ==
  /\ policy # "anytime"
  /\ Failed("Read")
  /\ CancelCalled
  /\ Has(Done("Finish", TRUE))


\* -------------------------------------------------------------------- C7
IsDetach(i, by) == trace[i].kind = "detach" /\ trace[i].name = by
ResponseAt(i) == trace[i].kind = "response"

\* C7 as stated: on a denial the handle is detached and disposed by the
\* routine that issues Finish, before CallCancel, and no Write follows the
\* denial.
C7_DenyFinishesBeforeCancel ==
  (Denied /\ CancelCalled) =>
    /\ rpc_ = NULL
    /\ \E i, j \in Events : i < j /\ IsIssue(i, "Finish") /\ IsCall(j, "CallCancel")
    /\ \A i, j \in Events :
         (ResponseAt(i) /\ i < j) => ~IsIssue(j, "WriteRequest") /\ ~IsIssue(j, "WriteResult")

\* C7 (amended): on a denial the handle is detached from rpc_ under the
\* mutex and deleted on the spot by rpc_.reset(), before CallCancel is
\* called; no Finish and no other operation is issued on the channel after
\* the denial (the caller calling SendResultToServer only after the
\* decision).
C7_DenyResetsHandle ==
  (policy # "anytime" /\ Denied /\ Cancelled) =>
    /\ rpc_ = NULL
    /\ holderDeleted
    /\ \E i \in Events :
         /\ IsDetach(i, "NotifyClientOfServerDecision") /\ trace[i].locked
         /\ i + 1 <= Len(trace)
         /\ trace[i + 1].kind = "delete" /\ trace[i + 1].name = "rpc_.reset()"
         /\ trace[i + 1].locked
         /\ \A j \in Events : IsCall(j, "CallCancel") => i + 1 < j
    /\ \A i, j \in Events : (ResponseAt(i) /\ i < j) => trace[j].kind # "issue"
    /\ Count("issue", "Finish") = 0

\* A denial, CallCancel called and a later SendResultToServer.
C7_Witness ==
  /\ policy # "anytime"
  /\ Denied
  /\ CancelCalled
  /\ holderDeleted
  /\ Count("send", "SendResultToServer") >= 1

\* -------------------------------------------------------------------- C8
\* C8: when StartUpFailed finds the handle, it detaches it under the mutex
\* and issues one Finish on the channel, and that is the only Finish of the
\* session; the holder is not deleted without it.  After any failed startup
\* operation, the open included, this is what has happened once CallCancel
\* is on its way.
C8_ErrorCleanupFinishes ==
  /\ \A i \in Events :
       IsDetach(i, "StartUpFailed") =>
         /\ trace[i].locked
         /\ i + 1 <= Len(trace) /\ IsIssue(i + 1, "Finish")
  /\ (SomeStartupOpFailed /\ Cancelled) =>
       /\ rpc_ = NULL
       /\ Count("detach", "StartUpFailed") = 1
       /\ Count("issue", "Finish") = 1
       /\ Count("delete", "rpc_.reset()") = 0
       /\ holderDeleted => Has(Done("Finish", TRUE)) \/ Has(Done("Finish", FALSE))

\* The open failed, the Finish was issued and CallCancel called.
C8_Witness ==
  /\ Failed("Open")
  /\ Count("issue", "Finish") = 1
  /\ CancelCalled

\* -------------------------------------------------------------------- C9
\* C9 as stated: no user code (callback or subclass hook) is entered by a
\* thread that holds the mutex.
C9_NoUserCodeUnderLock ==
  \A i \in Events : trace[i].kind = "call" => ~trace[i].locked

\* C9 (amended): CallRun and CallCancel are never entered by a thread that
\* holds the mutex; the hooks StartRpc and PopulateServerRequest are always
\* entered by a thread that holds it.
C9_CallbackOutsideLockHooksInside ==
  \A i \in Events :
    trace[i].kind = "call" =>
      /\ trace[i].name \in {"CallRun", "CallCancel"} => ~trace[i].locked
      /\ trace[i].name \in {"StartRpc", "PopulateServerRequest"} => trace[i].locked

\* Both hooks and then the callback were called.
C9_Witness ==
  \E i, j, k \in Events :
    /\ IsCall(i, "StartRpc") /\ IsCall(j, "PopulateServerRequest")
    /\ IsCall(k, "CallRun") /\ ~trace[k].locked

\* -------------------------------------------------------------------- C10
\* C10: at most one operation is outstanding on the channel, and none is
\* issued while another is outstanding, whenever the caller calls
\* SendResultToServer.
C10_AtMostOneOutstanding ==
  /\ Cardinality(pending) <= 1
  /\ \A i \in Events : trace[i].kind = "issue" => ~trace[i].flag


\* -------------------------------------------------------------------- C11
\* The holder deleted itself at position d of the trace, at the end of
\* FinishSucceeded or FinishFailed.
DeletedItselfAt(d) == trace[d].kind = "delete" /\ trace[d].name = "delete this"
\* The handler that deleted the holder at d logged a message just before.
LoggedAt(d) == d > 1 /\ trace[d - 1].kind = "log"
FinishOk == Has(Done("Finish", TRUE))

\* C11 as stated, for a Finish that completed with a status: OK and
\* CANCELLED give no warning, every other status gives one warning, then
\* the holder is deleted.
C11_OtherStatusWarns ==
  \A d \in Events :
    (DeletedItselfAt(d) /\ FinishOk) =>
      IF status_ \in {"OK", "CANCELLED"}
        THEN ~LoggedAt(d)
        ELSE LoggedAt(d) /\ trace[d - 1].name = "kWarning"

\* C11 (amended): when Finish completed with a status, FinishSucceeded logs
\* nothing for OK and CANCELLED, one kFatal message for ABORTED in a debug
\* build and one kWarning message for every other case; when the Finish
\* itself failed, FinishFailed logs one kWarning message whatever status_
\* holds.  Either handler then deletes the holder, once.
C11_StatusDecidesLog ==
  /\ Count("delete", "delete this") <= 1
  /\ \A d \in Events :
       DeletedItselfAt(d) =>
         /\ holderDeleted
         /\ LoggedAt(d) => ~LoggedAt(d - 1)
         /\ IF ~FinishOk
              THEN LoggedAt(d) /\ trace[d - 1].name = "kWarning"
              ELSE IF status_ \in {"OK", "CANCELLED"}
                THEN ~LoggedAt(d)
                ELSE /\ LoggedAt(d)
                     /\ trace[d - 1].name =
                          (IF debug /\ status_ = "ABORTED" THEN "kFatal" ELSE "kWarning")

\* A debug build whose Finish reported ABORTED, after the holder's deletion.
C11_Witness ==
  /\ debug
  /\ FinishOk
  /\ status_ = "ABORTED"
  /\ \E d \in Events : DeletedItselfAt(d)

\* ------------------------------------------------------------------- C12
\* Thread t is inside ScopedMutex's constructor, waiting for mutex_.
WaitingForMutex(t) == pc[t][1] \in LockingMethods /\ pc[t][2] = "entry"

\* Thread t runs SendResultToServer called from inside the callback, i.e. on
\* the worker that runs NotifyClientOfServerDecision or StartUpFailed.
ReentersFromCallback(t) == t \in Workers /\ pc[t][1] = "SendResultToServer"

\* C12: no thread ever waits for the client's mutex while a frame of its own
\* call stack holds it; in particular a SendResultToServer called from inside
\* CallRun finds the mutex released by its own thread, so it can acquire the
\* mutex, and the thread that is past the acquisition is the holder.
C12_NoSelfDeadlock ==
  \A t \in Threads :
    /\ WaitingForMutex(t) => mutex # t
    /\ (pc[t][1] \in LockingMethods /\ pc[t][2] = "locked") => mutex = t

\* A worker that called SendResultToServer from inside CallRun holds the mutex.
C12_Witness ==
  \E t \in Workers :
    /\ ReentersFromCallback(t)
    /\ pc[t][2] = "locked"
    /\ mutex = t
    /\ RunCalled
    /\ ~CancelCalled

\* ------------------------------------------------------------------- C13
\* The steps at which rpc_ went from the holder to null.
Detachments == {i \in Events : trace[i].kind = "detach"}
DetachPaths == {"SendResultToServer", "StartUpFailed", "NotifyClientOfServerDecision"}

\* C13: rpc_ is taken out of the client at most once and never comes back:
\* rpc_ is null exactly when one detachment has happened (the record of steps
\* only grows, so a null rpc_ stays null); the detachment is made with the
\* mutex held, by SendResultToServer, by StartUpFailed or by the deny branch
\* of NotifyClientOfServerDecision, and no second path acts on the handle.
C13_DetachedOnceUnderLock ==
  /\ Cardinality(Detachments) <= 1
  /\ (rpc_ = NULL) <=> (Cardinality(Detachments) = 1)
  /\ \A i \in Detachments : trace[i].locked /\ trace[i].name \in DetachPaths

\* StartUpFailed detached the handle and a SendResultToServer that came
\* afterwards found it gone.
C13_Witness ==
  \E i \in Detachments :
    /\ trace[i].name = "StartUpFailed"
    /\ \E j \in Events : j > i /\ trace[j] = Ev("send", "SendResultToServer", FALSE, TRUE)
    /\ rpc_ = NULL

\* ------------------------------------------------------------------- C14
\* Operation op completed successfully before step i.
SucceededBefore(op, i) == \E j \in Events : j < i /\ trace[j] = Done(op, TRUE)
\* NotifyClientOfServerDecision acted on ok_to_proceed at step i: it called
\* CallRun, or it took the deny branch and reset rpc_.
DecisionTakenAt(i) ==
  IsCall(i, "CallRun") \/ IsDetach(i, "NotifyClientOfServerDecision")

\* C14: the startup steps are issued in order, each after the success of the
\* one before: the Write of the request after the open succeeded, the Read
\* after that Write succeeded, the decision after the Read succeeded; and the
\* open, the Write of the request and the Read are each issued at most once.
C14_StartupInOrder ==
  /\ \A op \in StartupOps : Count("issue", op) <= 1
  /\ \A i \in Events :
       /\ IsIssue(i, "WriteRequest") => SucceededBefore("Open", i)
       /\ IsIssue(i, "Read") =>
            /\ SucceededBefore("WriteRequest", i)
            /\ \E j \in Events : j < i /\ IsIssue(j, "WriteRequest")
       /\ DecisionTakenAt(i) =>
            /\ SucceededBefore("Read", i)
            /\ \E j \in Events : j < i /\ IsIssue(j, "Read")

\* The whole startup went through and the decision was acted upon.
C14_Witness ==
  /\ \A op \in StartupOps : Count("issue", op) = 1 /\ Has(Done(op, TRUE))
  /\ \E i \in Events : DecisionTakenAt(i)

\* ------------------------------------------------------------------- C15
\* The Read delivered ok_to_proceed = true at step i, and SendResultToServer
\* had not run before.
GrantedAt(i) ==
  /\ ResponseAt(i) /\ trace[i].flag
  /\ \A j \in Events : j < i => ~IsSend(j)
SendSince(i) == \E j \in Events : j > i /\ IsSend(j)
\* Step k touches the session: an operation issued, rpc_ detached, or the
\* holder deleted.
TouchesSession(k) == trace[k].kind \in {"issue", "detach", "delete"}

\* C15: a grant leaves the session alone until SendResultToServer is called:
\* from the delivery of ok_to_proceed = true, through
\* NotifyClientOfServerDecision and CallRun, rpc_ still holds the holder,
\* nothing is outstanding on the channel, and no operation is issued and the
\* holder is neither detached nor deleted before the first SendResultToServer.
C15_GrantKeepsSession ==
  \A i \in Events : GrantedAt(i) =>
    /\ \A k \in Events : (k > i /\ TouchesSession(k)) =>
         \E j \in Events : i < j /\ j < k /\ IsSend(j)
    /\ ~SendSince(i) => (rpc_ = HOLDER /\ ~holderDeleted /\ pending = {})

\* CallRun has returned after a grant, and SendResultToServer is yet to come.
C15_Witness ==
  /\ \E i \in Events : GrantedAt(i) /\ ~SendSince(i)
  /\ RunCalled
  /\ \A t \in Threads : pc[t] = Idle
  /\ rpc_ = HOLDER

\* ------------------------------------------------------------------- C16
\* The handlers that use rpc_ without testing it: DCHECK(rpc_ != nullptr) in
\* NotifyClientOfServerDecision and StartUpFailed, rpc_->rw() in
\* BootStrapFinished and WriteServerRequestComplete.
HandlersUsingRpc == {"BootStrapFinished", "WriteServerRequestComplete",
                     "NotifyClientOfServerDecision", "StartUpFailed"}

\* C16: with SendResultToServer called at any time after Start, any number
\* of times, every startup handler that runs finds rpc_ present: the two
\* DCHECKs hold and rpc_ is never dereferenced while null.
C16_HandlersFindRpc ==
  \A t \in Threads :
    (pc[t][1] \in HandlersUsingRpc /\ pc[t][2] = "locked") => rpc_ # NULL

\* ------------------------------------------------------------------- C17
\* Start is between StartRpc and rpc_->SetReaderWriter(...).
StartBeforeSetReaderWriter == pc[Main] = <<"Start", "SetReaderWriter">>
\* Thread t runs the body of one of the two handlers of the open.
InOpenHandler(t) ==
  pc[t][1] \in {"BootStrapFinished", "StartUpFailed"} /\ pc[t][2] = "locked"

\* C17: Start keeps the mutex from before StartRpc until SetReaderWriter has
\* stored the reader-writer, so a completion of the open that another thread
\* delivers in between waits: the bodies of BootStrapFinished and
\* StartUpFailed run, and the Write of the request and the Finish are
\* issued, only with the reader-writer set.
C17_StartLockCoversReaderWriter ==
  /\ StartBeforeSetReaderWriter =>
       /\ mutex = Main
       /\ ~rw_
       /\ \A t \in Workers : pc[t][2] \in {"", "entry"}
  /\ \A t \in Threads : InOpenHandler(t) => rw_
  /\ \A i \in Events : (IsIssue(i, "WriteRequest") \/ IsIssue(i, "Finish")) => rw_

\* The open has completed on a worker, which waits for the mutex at the
\* entry of its handler while Start has yet to store the reader-writer.
C17_Witness ==
  /\ StartBeforeSetReaderWriter
  /\ \E t \in Workers :
       /\ pc[t][1] \in {"BootStrapFinished", "StartUpFailed"}
       /\ pc[t][2] = "entry"
  /\ \E i \in Events : trace[i].kind = "done" /\ trace[i].name = "Open"

\* ------------------------------------------------------------------- C18
\* The methods of RpcHolder that are used as completion handlers.
HolderMethods == {"Finish", "Error", "FinishSucceeded", "FinishFailed"}
\* Tag p runs a method of the client object on one of its outcomes.
ClientBound(p) == p.run \in HandlerMethods \/ p.cancel \in HandlerMethods

\* C18: with SendResultToServer called only after CallRun, once the callback
\* has been invoked (CallRun or CallCancel) nothing that is still outstanding
\* completes into the client: every pending tag runs methods of the detached
\* RpcHolder only, and no thread is in, or waiting to enter, a completion
\* handler of the client.
C18_NoClientHandlerAfterCallback ==
  (policy = "afterRun" /\ (RunCalled \/ CancelCalled)) =>
    /\ \A p \in pending :
         /\ ~ClientBound(p)
         /\ {p.run, p.cancel} \subseteq HolderMethods
         /\ p.op \in {"WriteResult", "Finish"}
    /\ \A t \in Threads : pc[t][1] \notin HandlerMethods

\* After CallRun and SendResultToServer the Write of the result is outstanding.
C18_Witness ==
  /\ policy = "afterRun"
  /\ RunCalled
  /\ WriteResultTag \in pending
  /\ rpc_ = NULL

\* ------------------------------------------------------------------- C19
\* rpc_.release() handed the holder to its own cleanup.
DetachedForCleanup ==
  \E i \in Detachments : trace[i].name \in {"SendResultToServer", "StartUpFailed"}
\* A method of the holder is running, or is the handler of a pending tag.
HolderInUse ==
  \/ \E t \in Threads : pc[t][1] \in HolderMethods
  \/ \E p \in pending : p.run \in HolderMethods \/ p.cancel \in HolderMethods
\* "delete this" was reached once, and the holder is out of use.
DeletedOnce ==
  holderDeleted /\ Count("delete", "delete this") = 1 /\ ~HolderInUse
UseAfterDelete ==
  \E i \in Events :
    /\ trace[i].kind = "crash"
    /\ trace[i].name \in {"RpcHolder used after delete", "RpcHolder deleted twice"}

\* C19: when every issued operation completes, a holder detached by
\* SendResultToServer or by StartUpFailed is eventually deleted, by the one
\* of FinishSucceeded / FinishFailed that runs, whether the Write of the
\* result and the Finish succeed or fail; it is deleted once only, and no
\* method of the holder runs or is pending once it is deleted.
C19_DetachedHolderDeletedOnce ==
  /\ DetachedForCleanup ~> DeletedOnce
  /\ [](/\ Count("delete", "delete this") <= 1
        /\ ~UseAfterDelete
        /\ holderDeleted => ~HolderInUse)

\* The Write of the result failed, then the Finish failed, and FinishFailed
\* deleted the holder.
C19_Witness ==
  /\ Has(Done("WriteResult", FALSE))
  /\ Has(Done("Finish", FALSE))
  /\ DeletedOnce

=============================================================================
